---------------------------- MODULE Spec2Model ----------------------------
(***************************************************************************)
(* A model of the transcription pipeline of src/main.py: the construction  *)
(* of a VideoTranscriptor, and process(): process_source (acquisition into *)
(* the intermediate folder), transcribe_audio / transcribe_file (chunking  *)
(* and transcript writing) and clean_up.                                   *)
(*                                                                         *)
(* File names are sequences of tokens; "." is a token of its own, so that  *)
(* "a.b.mp4" is <<"a", ".", "b", ".", "mp4">>.  No other token holds a dot.*)
(* The external libraries (pydub, yt_dlp, whisper, pydrive) either succeed *)
(* or raise; what they raise is one of ExcKinds.                           *)
(***************************************************************************)
EXTENDS Integers, Sequences, FiniteSets, TLC

VARIABLES
    pc,            \* position of control
    args,          \* the arguments __init__ was called with
    self,          \* the VideoTranscriptor object's fields, or NoObject
    input,         \* ./input/<source_id>: its kind and the files of its tree
    intermediate_folder,  \* its files: file name -> audio content
    output_folder,        \* its files: transcript name -> what was written
    pending,       \* what the running loop has still to visit
    stack,         \* the process_drive_directory calls still to make or finish
    file,          \* transcribe_file's parameter
    audio,         \* len(audio) in transcribe_file, in milliseconds
    audio_chunks,  \* transcribe_file's audio_chunks
    i,             \* enumerate's index into audio_chunks (0-based, as in the code)
    exc,           \* the exception in flight or last raised, "none" if none
    log,           \* the logging.error calls made so far
    ran,           \* the phases of process() that were entered
    extracted,     \* the local video paths handed to extract_local_audio
    faults         \* how many library calls have raised so far

vars == <<pc, args, self, input, intermediate_folder, output_folder, pending,
          stack, file, audio, audio_chunks, i, exc, log, ran, extracted, faults>>

---------------------------------------------------------------------------
(* Bounds of the model *)

\* local input tree: directories at depth 0..MaxDepth below ./input/<source_id>
MaxDepth == 1
\* local input tree: how many files it holds in all
MaxInputFiles == 3
\* drive folders: how deep below the source folder, how many subfolders each
MaxDriveDepth == 1
MaxSubfolders == 1
\* how many calls into the libraries may raise in one run
MaxFaults == 2
\* transcription alone: how many files the intermediate folder holds
MaxFiles == 2
\* chunking alone: how many whole chunks an audio length may hold
MaxFullChunks == 3
\* chunking alone: how far from a multiple of the chunk length
MaxOffset == 8

---------------------------------------------------------------------------
(* Program constants and the enumerations *)

CHUNK_MS == 1200000

SourceType == {"youtube", "drive", "local"}
SourceFormat == {"one", "multiple"}
AudioFileType == {"mp3", "wav"}
TranscriptionModel == {"whisper"}
TranscriptionQuality == {"base", "medium", "large"}
OutputFormat == {"txt", "doc"}

\* FileNotFoundError, IsADirectoryError and PermissionError have handlers of
\* their own; OtherError stands for every other subclass of Exception.
ExcKinds == {"FileNotFoundError", "IsADirectoryError", "PermissionError", "OtherError"}
PathErrors == {"FileNotFoundError", "IsADirectoryError", "PermissionError"}

NoObject == [constructed |-> FALSE]

---------------------------------------------------------------------------
(* Pure helpers *)

Min(a, b) == IF a <= b THEN a ELSE b

\* str.endswith(suffix)
EndsWith(name, suffix) ==
    /\ Len(name) >= Len(suffix)
    /\ SubSeq(name, Len(name) - Len(suffix) + 1, Len(name)) = suffix

VideoSuffixes == {<<".", "mp4">>, <<".", "avi">>, <<".", "mov">>}

\* file.endswith(('.mp4', '.avi', '.mov'))
IsVideoNoDot(name) == \E s \in VideoSuffixes : EndsWith(name, Tail(s))
IsVideo(name) == \E s \in VideoSuffixes : EndsWith(name, s)

\* str.rfind('.') as a 1-based token index, 0 when there is no dot
RFindDot(name) ==
    LET dots == {k \in 1..Len(name) : name[k] = "."}
    IN  IF dots = {} THEN 0 ELSE CHOOSE k \in dots : \A j \in dots : j <= k

\* pathlib's PurePath.stem: the name without its last suffix; a leading or a
\* trailing dot starts no suffix
Stem(name) ==
    LET d == RFindDot(name)
    IN  IF 1 < d /\ d < Len(name) THEN SubSeq(name, 1, d - 1) ELSE name

\* str(i + 1) for the chunk numbers the model reaches
Decimal == <<"1", "2", "3", "4", "5", "6">>

\* f'{file_name}.{self.output_format.value}'
TranscriptName(f, fmt) == Stem(f) \o <<".", fmt>>

\* f'{file_name}-chunk{i+1}'
ChunkName(f, k) == Stem(f) \o <<"-chunk", Decimal[k + 1]>>

\* [audio[i:i + 1200000] for i in range(0, len(audio), 1200000)]: the slices
\* from position p on; a slice's end is clamped to the audio's length
RECURSIVE ChunksFromUnclamped(_, _)
ChunksFromUnclamped(p, L) ==
    IF p >= L THEN <<>>
    ELSE <<[start |-> p, end |-> p + CHUNK_MS]>> \o ChunksFromUnclamped(p + CHUNK_MS, L)

RECURSIVE ChunksFrom(_, _)
ChunksFrom(p, L) ==
    IF p >= L THEN <<>>
    ELSE <<[start |-> p, end |-> Min(p + CHUNK_MS, L)]>> \o ChunksFrom(p + CHUNK_MS, L)

AudioChunks(L) == ChunksFrom(0, L)


---------------------------------------------------------------------------
(* Folders, audio lengths, names *)

EmptyDir == <<>>

\* a folder without the entry n
Without(dir, n) == [m \in DOMAIN dir \ {n} |-> dir[m]]

\* a folder with the entry n written (created or overwritten)
With(dir, n, c) == (n :> c) @@ dir

\* audio lengths of the files the pipeline handles: 0, 1 and 2 chunks
FileLengths == {0, CHUNK_MS, CHUNK_MS + 1}

\* audio lengths for the chunking alone
Lengths ==
    {q * CHUNK_MS + r : q \in 0..MaxFullChunks, r \in 0..MaxOffset}
    \cup {q * CHUNK_MS - r : q \in 1..MaxFullChunks, r \in 1..MaxOffset}

\* what a file of the intermediate folder holds: its audio length, and (for
\* the claims) where it came from: "found" there before the run, "acquired"
\* by process_source, or a "chunk" exported by transcribe_file
Content(L, o) == [len |-> L, origin |-> o]

\* names of local input files
LocalNames ==
    { <<"a", ".", "mp4">>, <<"a", ".", "avi">>, <<"a", ".", "b", ".", "mov">>,
      <<"notes", ".", "txt">>, <<"mp4">> }

\* the trees ./input/<source_id> may hold: a chain of directories, one per
\* depth, and the files in them as <<depth, name>>
InputPaths == (0..MaxDepth) \X LocalNames
InputTrees == {t \in SUBSET InputPaths : Cardinality(t) <= MaxInputFiles}

NoInput == [kind |-> "missing", files |-> {}]
Inputs ==
    {[kind |-> k, files |-> {}] : k \in {"missing", "file", "empty"}}
    \cup {[kind |-> "dir", files |-> t] : t \in InputTrees \ {{}}}

\* the local inputs of the runs of process() as a whole
RunInputs ==
    {[kind |-> k, files |-> {}] : k \in {"missing", "file", "empty"}}
    \cup {[kind |-> "dir", files |-> {<<0, <<"a", ".", "mp4">>>>}],
          [kind |-> "dir", files |-> {<<0, <<"notes", ".", "txt">>>>,
                                      <<1, <<"talk", ".", "avi">>>>}]}

\* what the intermediate folder may hold before a run of process()
TalkMp3 == <<"talk", ".", "mp3">>
InitialDirs ==
    {EmptyDir, With(EmptyDir, TalkMp3, Content(CHUNK_MS + 1, "found"))}

\* what transcribe_audio may find in the intermediate folder: audio files
\* with and without a common stem, a file named like a chunk
AudioNames ==
    {<<"talk", ".", "mp3">>, <<"talk", ".", "wav">>, <<"talk", "-chunk", "1">>}
AudioDirs ==
    UNION {[names -> {Content(L, "acquired") : L \in FileLengths}] :
             names \in {s \in SUBSET AudioNames : Cardinality(s) <= MaxFiles}}

---------------------------------------------------------------------------
(* __init__ *)

\* Enum(value): the member with that value, ValueError when there is none
EnumLookup(enum, v) == IF v \in enum THEN v ELSE "ValueError"

\* the values a caller may pass: the enumerations' and one outside each
CtorArgs ==
    [source_type : SourceType \cup {"vimeo"},
     source_format : SourceFormat \cup {"playlist"},
     audio_file_type : AudioFileType \cup {"ogg"},
     keep_intermediate_files : BOOLEAN,
     transcription_model : TranscriptionModel \cup {"vosk"},
     transcription_quality : TranscriptionQuality \cup {"tiny"},
     output_format : OutputFormat \cup {"pdf"}]

\* whether __init__ raises: only source_type and source_format are converted
InitRaises(a) ==
    \/ EnumLookup(SourceType, a.source_type) = "ValueError"
    \/ EnumLookup(SourceFormat, a.source_format) = "ValueError"

\* the object __init__ builds
NewObject(a) ==
    [source_type |-> EnumLookup(SourceType, a.source_type),
     source_format |-> EnumLookup(SourceFormat, a.source_format),
     audio_file_type |-> a.audio_file_type,
     keep_intermediate_files |-> a.keep_intermediate_files,
     transcription_model |-> a.transcription_model,
     transcription_quality |-> a.transcription_quality,
     output_format |-> a.output_format]

\* the state before any call: nothing on disk is looked at by __init__
InitCtor ==
    /\ pc = "new"
    /\ args \in CtorArgs
    /\ self = NoObject
    /\ input = NoInput
    /\ intermediate_folder = EmptyDir
    /\ output_folder = EmptyDir
    /\ pending = {}
    /\ stack = <<>>
    /\ file = <<>>
    /\ audio = 0
    /\ audio_chunks = <<>>
    /\ i = 0
    /\ exc = "none"
    /\ log = <<>>
    /\ ran = {}
    /\ extracted = <<>>
    /\ faults = 0

Construct ==
    /\ pc = "new"
    /\ ~InitRaises(args)
    /\ self' = NewObject(args)
    /\ pc' = "constructed"
    /\ UNCHANGED <<args, input, intermediate_folder, output_folder, pending, stack, file, audio, audio_chunks,
                   i, exc, log, ran, extracted, faults>>

ConstructRaises ==
    /\ pc = "new"
    /\ InitRaises(args)
    /\ exc' = "ValueError"
    /\ pc' = "raised"
    /\ UNCHANGED <<args, self, input, intermediate_folder, output_folder, pending, stack, file, audio,
                   audio_chunks, i, log, ran, extracted, faults>>

NextCtor == Construct \/ ConstructRaises

SpecCtor == InitCtor /\ [][NextCtor]_vars

---------------------------------------------------------------------------
(* The chunking of transcribe_file, alone *)

InitChunks ==
    /\ pc = "slice"
    /\ audio \in Lengths
    /\ audio_chunks = <<>>
    /\ args = NoObject
    /\ self = NoObject
    /\ input = NoInput
    /\ intermediate_folder = EmptyDir
    /\ output_folder = EmptyDir
    /\ pending = {}
    /\ stack = <<>>
    /\ file = <<>>
    /\ i = 0
    /\ exc = "none"
    /\ log = <<>>
    /\ ran = {}
    /\ extracted = <<>>
    /\ faults = 0

Slice ==
    /\ pc = "slice"
    /\ audio_chunks' = AudioChunks(audio)
    /\ pc' = "sliced"
    /\ UNCHANGED <<args, self, input, intermediate_folder, output_folder, pending, stack, file, audio, i, exc,
                   log, ran, extracted, faults>>

NextChunks == Slice

SpecChunks == InitChunks /\ [][NextChunks]_vars


---------------------------------------------------------------------------
(* process(): the state it starts in *)

\* the calls of __init__ the runs start from: every source type and format,
\* both values of keep_intermediate_files, and the signature's defaults for
\* the other enumerated parameters
RunArgs ==
    {a \in CtorArgs :
        /\ ~InitRaises(a)
        /\ a.audio_file_type = "mp3"
        /\ a.transcription_model = "whisper"
        /\ a.transcription_quality = "base"
        /\ a.output_format = "txt"}

Init ==
    /\ pc = "process_source"
    /\ args \in RunArgs
    /\ self = NewObject(args)
    /\ input \in (IF args.source_type = "local" THEN RunInputs ELSE {NoInput})
    /\ intermediate_folder \in InitialDirs
    /\ output_folder = EmptyDir
    /\ pending = {}
    /\ stack = <<>>
    /\ file = <<>>
    /\ audio = 0
    /\ audio_chunks = <<>>
    /\ i = 0
    /\ exc = "none"
    /\ log = <<>>
    /\ ran = {}
    /\ extracted = <<>>
    /\ faults = 0

\* a logging.error call: the function that made it and what it reports (an
\* exception's kind, or the condition found)
Entry(at, what) == [at |-> at, what |-> what]

\* what an except clause does with the exception it catches: what it logs,
\* and whether the exception leaves the function
Handled(at, k, reraise) == [log |-> <<Entry(at, k)>>, raised |-> reraise]

\* a call into a library raises an exception of kind k
Raises(k) ==
    /\ k \in ExcKinds
    /\ faults < MaxFaults
    /\ faults' = faults + 1

---------------------------------------------------------------------------
(* process_source and the functions it calls *)

\* process_source's except clause (lines 108-110)
ProcessSourceSwallows(k) == Handled("process_source", k, FALSE)
ProcessSourceExcept(k) == Handled("process_source", k, TRUE)

\* authenticate_drive's except clause (lines 121-123)
AuthenticateExcept(k) == Handled("authenticate_drive", k, TRUE)

\* extract_google_audio's except clause (lines 193-195)
ExtractGoogleExcept(k) == Handled("extract_google_audio", k, TRUE)

\* process_drive_directory's except clause (lines 151-153)
DriveDirectoryExcept(k) == Handled("process_drive_directory", k, TRUE)

\* extract_local_audio's except clause (lines 281-283)
ExtractLocalExcept(k) == Handled("extract_local_audio", k, TRUE)

\* process_local_files' except clauses (lines 257-265)
LocalFilesExcept(k) == Handled("process_local_files", k, k \notin PathErrors)

\* the same clause n times over, one per nested call
RECURSIVE Nested(_, _)
Nested(h, n) == IF n = 0 THEN <<>> ELSE h.log \o Nested(h, n - 1)

\* process_source ends: by raising, or by returning to process(), which
\* calls transcribe_audio next (lines 361-362)
EndSource(raised, k) ==
    /\ pc' = IF raised THEN "raised" ELSE "transcribe_audio"
    /\ exc' = IF raised THEN k ELSE "none"
    /\ pending' = {}
    /\ stack' = <<>>

\* the files a download writes: title.ext, the ext being the preferred codec
DownloadNames(ext) == {<<"talk", ".", ext>>, <<"lecture", ".", ext>>}

\* the intermediate folder after the files of names were written into it,
\* with the lengths len gives them
RECURSIVE Written(_, _, _)
Written(dir, names, len) ==
    IF names = {} THEN dir
    ELSE LET n == CHOOSE n \in names : TRUE
         IN  Written(With(dir, n, Content(len[n], "acquired")), names \ {n}, len)

\* process_source (lines 90-105) up to the first call that can fail
process_source ==
    /\ pc = "process_source"
    /\ ran' = ran \cup {"process_source"}
    /\ pc' = CASE self.source_type = "drive" -> "authenticate_drive"
               [] self.source_type = "youtube" -> "extract_google_audio"
               [] self.source_type = "local" -> "process_local_files"
    /\ UNCHANGED <<args, self, input, intermediate_folder, output_folder, pending, stack, file, audio,
                   audio_chunks, i, exc, log, extracted, faults>>

\* authenticate_drive (lines 116-123), then the branch on source_format
authenticate_drive ==
    /\ pc = "authenticate_drive"
    /\ \/ /\ self.source_format = "one"
          /\ pc' = "extract_google_audio"
          /\ UNCHANGED <<stack, exc, log, pending, faults>>
       \/ /\ self.source_format = "multiple"
          /\ pc' = "process_drive_directory"
          /\ stack' = <<[depth |-> 0, stage |-> "video"]>>
          /\ UNCHANGED <<exc, log, pending, faults>>
       \/ \E k \in ExcKinds :
            LET h1 == AuthenticateExcept(k)
                h2 == ProcessSourceExcept(k)
            IN  /\ Raises(k)
                /\ log' = log \o h1.log \o h2.log
                /\ EndSource(h2.raised, k)
    /\ UNCHANGED <<args, self, input, intermediate_folder, output_folder, file, audio, audio_chunks,
                   i, ran, extracted>>

\* extract_google_audio(self.source_id) (lines 188-195, 215-233): a video, or
\* a playlist when the source is youtube and multiple
extract_google_audio ==
    /\ pc = "extract_google_audio"
    /\ LET names == DownloadNames(self.audio_file_type)
           playlist == self.source_type = "youtube" /\ self.source_format = "multiple"
       IN  \/ \E got \in SUBSET names : \E len \in [got -> FileLengths] :
                /\ playlist \/ Cardinality(got) = 1
                /\ intermediate_folder' = Written(intermediate_folder, got, len)
                /\ EndSource(FALSE, "none")
                /\ UNCHANGED <<log, faults>>
           \/ \E k \in ExcKinds : \E got \in SUBSET names : \E len \in [got -> FileLengths] :
                LET h1 == ExtractGoogleExcept(k)
                    h2 == ProcessSourceExcept(k)
                IN  /\ Raises(k)
                    /\ IF playlist THEN Cardinality(got) < Cardinality(names) ELSE got = {}
                    /\ intermediate_folder' = Written(intermediate_folder, got, len)
                    /\ log' = log \o h1.log \o h2.log
                    /\ EndSource(h2.raised, k)
    /\ UNCHANGED <<args, self, input, output_folder, file, audio, audio_chunks, i, ran,
                   extracted>>

\* the titles of the audio files a drive folder lists
DriveAudioNames == {<<"talk", ".", "wav">>}

\* the videos a drive folder lists, by the file their audio is written to
DriveVideoNames(ext) == {<<"talk", ".", ext>>}

\* process_drive_directory (lines 145-153): the next step of the call on top
\* of the stack. process_drive_files (lines 163-168) lists the folder's
\* videos or audio files and fetches each; process_drive_subfolders (lines
\* 177-179) lists the subfolders and calls process_drive_directory on each.
process_drive_directory ==
    /\ pc = "process_drive_directory"
    /\ IF stack = <<>>
       THEN /\ EndSource(FALSE, "none")
            /\ UNCHANGED <<intermediate_folder, log, faults>>
       ELSE LET top == Head(stack)
                names == IF top.stage = "video"
                         THEN DriveVideoNames(self.audio_file_type)
                         ELSE DriveAudioNames
                after == IF top.stage = "video" THEN "audio" ELSE "subfolders"
            IN  \/ /\ top.stage \in {"video", "audio"}
                   /\ \E got \in SUBSET names : \E len \in [got -> FileLengths] :
                        intermediate_folder' = Written(intermediate_folder, got, len)
                   /\ stack' = <<[top EXCEPT !.stage = after]>> \o Tail(stack)
                   /\ UNCHANGED <<pc, exc, log, pending, faults>>
                \/ /\ top.stage = "subfolders"
                   /\ \E n \in 0..MaxSubfolders :
                        /\ n > 0 => top.depth < MaxDriveDepth
                        /\ stack' = [j \in 1..n |-> [depth |-> top.depth + 1, stage |-> "video"]]
                                    \o Tail(stack)
                   /\ UNCHANGED <<pc, exc, log, pending, intermediate_folder, faults>>
                \/ \E k \in ExcKinds : \E inner \in BOOLEAN :
                     LET h0 == ExtractGoogleExcept(k)
                         h1 == DriveDirectoryExcept(k)
                         h2 == ProcessSourceExcept(k)
                     IN  /\ Raises(k)
                         /\ inner => top.stage = "video"
                         /\ log' = log \o (IF inner THEN h0.log ELSE <<>>)
                                       \o Nested(h1, top.depth + 1) \o h2.log
                         /\ EndSource(h2.raised, k)
                         /\ UNCHANGED intermediate_folder
    /\ UNCHANGED <<args, self, input, output_folder, file, audio, audio_chunks, i, ran,
                   extracted>>

\* the checks process_local_files makes of ./input/<source_id> (lines
\* 241-249): what it logs, nothing when the path is a directory with entries
PathCheckEmptyPasses(kind) ==
    CASE kind = "missing" -> <<Entry("process_local_files", "PathDoesNotExist")>>
      [] kind = "file" -> <<Entry("process_local_files", "ExpectedDirectory")>>
      [] OTHER -> <<>>
PathCheck(kind) ==
    CASE kind = "missing" -> <<Entry("process_local_files", "PathDoesNotExist")>>
      [] kind = "file" -> <<Entry("process_local_files", "ExpectedDirectory")>>
      [] kind = "empty" -> <<Entry("process_local_files", "DirectoryEmpty")>>
      [] OTHER -> <<>>

\* process_local_files (lines 239-251) up to the walk
process_local_files ==
    /\ pc = "process_local_files"
    /\ LET said == PathCheck(input.kind)
       IN  IF said # <<>>
           THEN /\ log' = log \o said
                /\ EndSource(FALSE, "none")
           ELSE /\ pc' = "walk"
                /\ pending' = input.files
                /\ UNCHANGED <<log, exc, stack>>
    /\ UNCHANGED <<args, self, input, intermediate_folder, output_folder, file, audio, audio_chunks, i,
                   ran, extracted, faults>>

\* how often a path was handed to extract_local_audio
Count(bag, p) == IF p \in DOMAIN bag THEN bag[p] ELSE 0

\* os.walk is top-down: a directory's files come before its subdirectories'
NextInWalk(paths) == {p \in paths : \A q \in paths : p[1] <= q[1]}

\* the walk (lines 252-255): the next file, extract_local_audio (lines
\* 274-283) when its name ends with a video extension
Walk ==
    /\ pc = "walk"
    /\ IF pending = {}
       THEN /\ EndSource(FALSE, "none")
            /\ UNCHANGED <<intermediate_folder, log, extracted, faults>>
       ELSE \E p \in NextInWalk(pending) :
              IF ~IsVideo(p[2])
              THEN /\ pending' = pending \ {p}
                   /\ UNCHANGED <<pc, exc, stack, intermediate_folder, log, extracted, faults>>
              ELSE /\ extracted' = With(extracted, p, Count(extracted, p) + 1)
                   /\ \/ \E L \in FileLengths :
                           /\ intermediate_folder' = With(intermediate_folder, Stem(p[2]), Content(L, "acquired"))
                           /\ pending' = pending \ {p}
                           /\ UNCHANGED <<pc, exc, stack, log, faults>>
                      \/ \E k \in ExcKinds :
                           LET h1 == ExtractLocalExcept(k)
                               h2 == LocalFilesExcept(k)
                               h3 == ProcessSourceExcept(k)
                           IN  /\ Raises(k)
                               /\ log' = log \o h1.log \o h2.log
                                             \o (IF h2.raised THEN h3.log ELSE <<>>)
                               /\ EndSource(h2.raised /\ h3.raised, k)
                               \* from_file raised, or export did, which
                               \* opens its output before it converts
                               /\ \E left \in BOOLEAN :
                                    intermediate_folder' = IF left
                                             THEN With(intermediate_folder, Stem(p[2]), Content(0, "acquired"))
                                             ELSE intermediate_folder
    /\ UNCHANGED <<args, self, input, output_folder, file, audio, audio_chunks, i, ran>>

---------------------------------------------------------------------------
(* transcribe_audio and transcribe_file *)

\* transcribe_file's except clauses (lines 338-346)
TranscribeFileSwallowsAll(k) == Handled("transcribe_file", k, FALSE)
TranscribeFileExcept(k) == Handled("transcribe_file", k, k \notin PathErrors)

\* transcribe_audio's except clauses (lines 304-312) for an exception that
\* leaves transcribe_file
TranscribeAudioExcept(k) == Handled("transcribe_audio", k, k \notin PathErrors)

\* the recognized text of chunk k of file f, and the "\n" written after it
Text(f, k) == [kind |-> "text", of |-> f, chunk |-> k]
Newline == [kind |-> "newline", of |-> <<>>, chunk |-> 0]

\* f.write(result["text"]); f.write("\n") (lines 335-336)
WriteChunkNoNewline(written, f, k) == written \o <<Text(f, k)>>
WriteChunk(written, f, k) == written \o <<Text(f, k), Newline>>

\* an exception of kind k leaves transcribe_file's try block
FileRaises(k) ==
    LET h1 == TranscribeFileExcept(k)
        h2 == TranscribeAudioExcept(k)
    IN  /\ log' = log \o h1.log \o (IF h1.raised THEN h2.log ELSE <<>>)
        /\ pc' = IF h1.raised /\ h2.raised THEN "raised" ELSE "files"
        /\ exc' = IF h1.raised /\ h2.raised THEN k ELSE "none"

\* transcribe_audio (lines 292-299) up to the loop
transcribe_audio ==
    /\ pc = "transcribe_audio"
    /\ ran' = ran \cup {"transcribe_audio"}
    /\ IF DOMAIN intermediate_folder = {}
       THEN /\ log' = Append(log, Entry("transcribe_audio", "NoFiles"))
            /\ pc' = "clean_up"
            /\ UNCHANGED <<pending, exc, faults>>
       ELSE \/ /\ pending' = DOMAIN intermediate_folder
               /\ pc' = "files"
               /\ UNCHANGED <<log, exc, faults>>
            \/ \E k \in ExcKinds :
                 \* whisper.load_model raises; the clauses for the path errors
                 \* read the loop variable file, not yet bound
                 /\ Raises(k)
                 /\ pc' = "raised"
                 /\ exc' = IF k \in PathErrors THEN "UnboundLocalError" ELSE k
                 /\ log' = IF k \in PathErrors THEN log
                           ELSE log \o TranscribeAudioExcept(k).log
                 /\ UNCHANGED pending
    /\ UNCHANGED <<args, self, input, intermediate_folder, output_folder, stack, file, audio,
                   audio_chunks, i, extracted>>

\* the loop of transcribe_audio (lines 301-303) and the head of
\* transcribe_file (lines 326-330): the next file of the listing, decoded,
\* sliced, and its transcript opened for writing
transcribe_file ==
    /\ pc = "files"
    /\ IF pending = {}
       THEN /\ pc' = "clean_up"
            /\ UNCHANGED <<pending, file, audio, audio_chunks, i, output_folder, exc, log,
                           faults>>
       ELSE \E f \in pending :
              /\ pending' = pending \ {f}
              /\ file' = f
              /\ \/ /\ f \in DOMAIN intermediate_folder
                    /\ audio' = intermediate_folder[f].len
                    /\ audio_chunks' = AudioChunks(intermediate_folder[f].len)
                    /\ i' = 0
                    /\ output_folder' = With(output_folder, TranscriptName(f, self.output_format), <<>>)
                    /\ pc' = "chunks"
                    /\ UNCHANGED <<exc, log, faults>>
                 \/ /\ f \in DOMAIN intermediate_folder
                    /\ \E k \in ExcKinds : Raises(k) /\ FileRaises(k)
                    /\ UNCHANGED <<audio, audio_chunks, i, output_folder>>
                 \/ \* the file is gone: open() finds nothing
                    /\ f \notin DOMAIN intermediate_folder
                    /\ FileRaises("FileNotFoundError")
                    /\ UNCHANGED <<audio, audio_chunks, i, output_folder, faults>>
    /\ UNCHANGED <<args, self, input, intermediate_folder, stack, ran, extracted>>

\* chunk.export (lines 331-333), or the end of the loop and of transcribe_file
ExportChunk ==
    /\ pc = "chunks"
    /\ IF i = Len(audio_chunks)
       THEN /\ pc' = "files"
            /\ UNCHANGED <<intermediate_folder, exc, log, faults>>
       ELSE \/ /\ intermediate_folder' = With(intermediate_folder, ChunkName(file, i),
                                Content(audio_chunks[i + 1].end - audio_chunks[i + 1].start,
                                        "chunk"))
               /\ pc' = "transcribe"
               /\ UNCHANGED <<exc, log, faults>>
            \/ /\ \E k \in ExcKinds : Raises(k) /\ FileRaises(k)
               \* export opens its output before it converts
               /\ \E left \in BOOLEAN :
                    intermediate_folder' = IF left
                             THEN With(intermediate_folder, ChunkName(file, i), Content(0, "chunk"))
                             ELSE intermediate_folder
    /\ UNCHANGED <<args, self, input, output_folder, pending, stack, file, audio,
                   audio_chunks, i, ran, extracted>>

\* model.transcribe, the two writes and os.remove (lines 334-337)
TranscribeChunk ==
    /\ pc = "transcribe"
    /\ \/ LET t == TranscriptName(file, self.output_format)
          IN  /\ output_folder' = With(output_folder, t, WriteChunk(output_folder[t], file, i + 1))
              /\ intermediate_folder' = Without(intermediate_folder, ChunkName(file, i))
              /\ i' = i + 1
              /\ pc' = "chunks"
              /\ UNCHANGED <<exc, log, faults>>
       \/ /\ \E k \in ExcKinds : Raises(k) /\ FileRaises(k)
          /\ UNCHANGED <<output_folder, intermediate_folder, i>>
    /\ UNCHANGED <<args, self, input, pending, stack, file, audio,
                   audio_chunks, ran, extracted>>

---------------------------------------------------------------------------
(* clean_up, process *)

\* the intermediate folder after clean_up (lines 352-354)
CleanedUpKeepsChunks(dir, keep) ==
    IF keep THEN dir
    ELSE [n \in {m \in DOMAIN dir : dir[m].origin = "chunk"} |-> dir[n]]
CleanedUp(dir, keep) == IF keep THEN dir ELSE EmptyDir

clean_up ==
    /\ pc = "clean_up"
    /\ ran' = ran \cup {"clean_up"}
    /\ intermediate_folder' = CleanedUp(intermediate_folder, self.keep_intermediate_files)
    /\ pc' = "done"
    /\ UNCHANGED <<args, self, input, output_folder, pending, stack, file, audio,
                   audio_chunks, i, exc, log, extracted, faults>>

Next ==
    \/ process_source
    \/ authenticate_drive
    \/ extract_google_audio
    \/ process_drive_directory
    \/ process_local_files
    \/ Walk
    \/ transcribe_audio
    \/ transcribe_file
    \/ ExportChunk
    \/ TranscribeChunk
    \/ clean_up

Spec == Init /\ [][Next]_vars

---------------------------------------------------------------------------
(* process_source on a local source, alone: every tree of Inputs *)

InitLocal ==
    /\ pc = "process_source"
    /\ args \in {a \in RunArgs : a.source_type = "local"}
    /\ self = NewObject(args)
    /\ input \in Inputs
    /\ intermediate_folder \in InitialDirs
    /\ output_folder = EmptyDir
    /\ pending = {}
    /\ stack = <<>>
    /\ file = <<>>
    /\ audio = 0
    /\ audio_chunks = <<>>
    /\ i = 0
    /\ exc = "none"
    /\ log = <<>>
    /\ ran = {}
    /\ extracted = <<>>
    /\ faults = 0

NextLocal == process_source \/ process_local_files \/ Walk

SpecLocal == InitLocal /\ [][NextLocal]_vars

---------------------------------------------------------------------------
(* transcribe_audio and clean_up, alone: process_source has returned and  *)
(* left one of AudioDirs in the intermediate folder                        *)

InitTranscribe ==
    /\ pc = "transcribe_audio"
    /\ args \in {a \in RunArgs : a.source_type = "youtube" /\ a.source_format = "multiple"}
    /\ self = NewObject(args)
    /\ input = NoInput
    /\ intermediate_folder \in AudioDirs
    /\ output_folder = EmptyDir
    /\ pending = {}
    /\ stack = <<>>
    /\ file = <<>>
    /\ audio = 0
    /\ audio_chunks = <<>>
    /\ i = 0
    /\ exc = "none"
    /\ log = <<>>
    /\ ran = {"process_source"}
    /\ extracted = <<>>
    /\ faults = 0

NextTranscribe ==
    transcribe_audio \/ transcribe_file \/ ExportChunk \/ TranscribeChunk \/ clean_up

SpecTranscribe == InitTranscribe /\ [][NextTranscribe]_vars

---------------------------------------------------------------------------
(* The claims *)

LogEntries == {log[k] : k \in 1..Len(log)}

\* C1 (SpecChunks): an audio of L ms is sliced into ceil(L / 1200000) chunks
\* that follow one another from 0 to L without gap or overlap; every chunk
\* but the last is 1200000 ms long, the last is L mod 1200000 ms long, or
\* 1200000 ms when L is a positive multiple of 1200000.
C1_ChunkBoundaries ==
    pc = "sliced" =>
        LET n == Len(audio_chunks)
            size(k) == audio_chunks[k].end - audio_chunks[k].start
        IN  /\ n = (audio + CHUNK_MS - 1) \div CHUNK_MS
            /\ n > 0 => audio_chunks[1].start = 0 /\ audio_chunks[n].end = audio
            /\ \A k \in 1..(n - 1) :
                 /\ audio_chunks[k + 1].start = audio_chunks[k].end
                 /\ size(k) = CHUNK_MS
            /\ n > 0 => size(n) = IF audio % CHUNK_MS = 0 THEN CHUNK_MS
                                  ELSE audio % CHUNK_MS

\* C1, its case: several chunks, the last one shorter
C1_Witness ==
    /\ pc = "sliced"
    /\ Len(audio_chunks) = 3
    /\ audio % CHUNK_MS = CHUNK_MS - 1

\* the transcript the claims expect of file f with n chunks: the texts with a
\* newline between them, and the texts with a newline after each
RECURSIVE Separated(_, _)
Separated(f, n) ==
    IF n = 0 THEN <<>>
    ELSE IF n = 1 THEN <<Text(f, 1)>>
    ELSE Separated(f, n - 1) \o <<Newline, Text(f, n)>>

RECURSIVE Terminated(_, _)
Terminated(f, n) ==
    IF n = 0 THEN <<>> ELSE Terminated(f, n - 1) \o <<Text(f, n), Newline>>

\* transcribe_file has gone through every chunk of file without an exception
FileFinished == pc = "chunks" /\ i = Len(audio_chunks)

\* C2 as stated (SpecTranscribe): when transcribe_file finishes a file
\* without an exception, its transcript holds the chunks' texts in chunk
\* order and nothing else, a newline separating consecutive texts.
C2_AsStated ==
    FileFinished =>
        output_folder[TranscriptName(file, self.output_format)]
            = Separated(file, Len(audio_chunks))

\* C2 as amended (SpecTranscribe): when transcribe_file finishes a file
\* without an exception, its transcript holds the chunks' texts in chunk
\* order, each followed by a newline, the last one too, and nothing else.
C2_NewlineAfterEachText ==
    FileFinished =>
        /\ TranscriptName(file, self.output_format) \in DOMAIN output_folder
        /\ output_folder[TranscriptName(file, self.output_format)]
             = Terminated(file, (audio + CHUNK_MS - 1) \div CHUNK_MS)

\* C2, its case: a file of two chunks was transcribed to the end
C2_Witness ==
    /\ FileFinished
    /\ Len(audio_chunks) = 2
    /\ Len(output_folder[TranscriptName(file, self.output_format)]) = 4

\* C3 (Spec): clean_up with keep_intermediate_files false leaves the
\* intermediate folder without entries, whatever it held; with the flag true
\* it leaves the folder as it was.
C3_CleanUp ==
    [][pc = "clean_up" =>
         IF self.keep_intermediate_files
         THEN intermediate_folder' = intermediate_folder
         ELSE DOMAIN intermediate_folder' = {}]_vars

\* C3, its case: clean_up has emptied a folder whose files were transcribed
\* and in which a failed transcription had left a chunk
C3_Witness ==
    /\ pc = "done"
    /\ ~self.keep_intermediate_files
    /\ DOMAIN intermediate_folder = {}
    /\ DOMAIN output_folder # {}
    /\ \E e \in LogEntries : e.at = "transcribe_file"

\* C4 as stated (SpecCtor): __init__ fails whenever one of the enumerated
\* arguments is outside its enumeration, so every object built holds values
\* of the enumerations only.
C4_AsStated ==
    pc = "constructed" =>
        /\ self.source_type \in SourceType
        /\ self.source_format \in SourceFormat
        /\ self.audio_file_type \in AudioFileType
        /\ self.transcription_model \in TranscriptionModel
        /\ self.transcription_quality \in TranscriptionQuality
        /\ self.output_format \in OutputFormat

\* C5 as stated (SpecTranscribe): when transcribe_audio has returned (here
\* after a run in which nothing was logged), every file of the intermediate
\* folder has a transcript of its own, named <stem>.<ext>, and no two files
\* share one.
C5_AsStated ==
    (pc = "clean_up" /\ log = <<>>) =>
        /\ \A f \in DOMAIN intermediate_folder :
             /\ TranscriptName(f, self.output_format) \in DOMAIN output_folder
             /\ output_folder[TranscriptName(f, self.output_format)]
                  = Terminated(f, Len(AudioChunks(intermediate_folder[f].len)))
        /\ \A f, g \in DOMAIN intermediate_folder :
             f # g => TranscriptName(f, self.output_format)
                        # TranscriptName(g, self.output_format)

\* a name whose last two tokens are a dot and mp4, avi or mov
HasVideoExtension(name) ==
    /\ Len(name) >= 2
    /\ name[Len(name) - 1] = "."
    /\ name[Len(name)] \in {"mp4", "avi", "mov"}

\* the walk went through the whole tree: no call failed
WalkCompleted == pc = "transcribe_audio" /\ input.kind = "dir" /\ log = <<>>

\* C6 (SpecLocal): the walk hands a file to extract_local_audio if and only
\* if its name ends with .mp4, .avi or .mov: no other file is ever handed
\* over, no file twice, every such file the walk has passed was handed over
\* once, and after a completed walk so was every such file of the tree, at
\* whatever depth.
C6_VideoExtensionsOnly ==
    /\ \A p \in DOMAIN extracted :
         p \in input.files /\ HasVideoExtension(p[2]) /\ extracted[p] = 1
    /\ pc = "walk" =>
         \A p \in input.files \ pending :
            HasVideoExtension(p[2]) => p \in DOMAIN extracted
    /\ WalkCompleted =>
         \A p \in input.files :
            HasVideoExtension(p[2]) => p \in DOMAIN extracted

\* C6, its case: a completed walk that extracted a video of the top
\* directory and one of a subdirectory and passed over another file
C6_Witness ==
    /\ WalkCompleted
    /\ \E p, q \in DOMAIN extracted : p[1] = 0 /\ q[1] > 0
    /\ \E r \in input.files : r \notin DOMAIN extracted

\* the files of the intermediate folder that transcribe_file exported as chunks
ChunkFiles == {n \in DOMAIN intermediate_folder : intermediate_folder[n].origin = "chunk"}

\* C7 as stated (SpecTranscribe): at most one chunk file exists at any time,
\* and none once transcribe_file has ended, by returning or by raising.
C7_AsStated ==
    /\ Cardinality(ChunkFiles) <= 1
    /\ pc \in {"files", "raised", "clean_up", "done"} => ChunkFiles = {}

\* the functions process_source calls, by the names their log entries carry
AcquisitionFunctions ==
    {"authenticate_drive", "extract_google_audio", "process_drive_directory",
     "extract_local_audio", "process_local_files"}

\* the exceptions logged during acquisition
AcquisitionErrors ==
    {e \in LogEntries : e.at \in AcquisitionFunctions /\ e.what \in ExcKinds}

\* process_source re-raised an exception of kind k: process() ended with it,
\* transcribe_audio and clean_up did not run
ReRaised(k) ==
    /\ pc = "raised"
    /\ exc = k
    /\ Entry("process_source", k) \in LogEntries
    /\ ran = {"process_source"}

\* C8 as stated (Spec): every exception raised during acquisition, of
\* whatever kind and source type, is logged and re-raised out of
\* process_source; process() ends with it and neither transcribe_audio nor
\* clean_up runs.
C8_AsStated == \A e \in AcquisitionErrors : ReRaised(e.what)

\* C8 as amended (Spec): an exception raised during acquisition is logged and
\* re-raised out of process_source, process() ends with it and neither
\* transcribe_audio nor clean_up runs, except a FileNotFoundError,
\* IsADirectoryError or PermissionError on a local source:
\* process_local_files logs it and returns, process_source returns and
\* process() calls transcribe_audio.
C8_ReRaisedButLocalPathErrors ==
    \A e \in AcquisitionErrors :
        IF self.source_type = "local" /\ e.what \in PathErrors
        THEN /\ Entry("process_local_files", e.what) \in LogEntries
             /\ \A d \in LogEntries : d.at # "process_source"
             /\ pc = "transcribe_audio" \/ "transcribe_audio" \in ran
        ELSE ReRaised(e.what)

\* C8, its case: process() ended with an exception that the extraction of a
\* local video raised
C8_Witness ==
    /\ self.source_type = "local"
    /\ Entry("extract_local_audio", "OtherError") \in LogEntries
    /\ pc = "raised"

\* C9 (SpecTranscribe): an exception raised while a file is transcribed
\* aborts the batch exactly when it is no FileNotFoundError, IsADirectoryError
\* or PermissionError. One of these three is logged and swallowed, the other
\* files are still transcribed and transcribe_audio returns; any other is
\* logged and re-raised as the last thing that happens: the files left are
\* not transcribed and clean_up does not run.
C9_PathErrorsSwallowed ==
    /\ [](\A k \in 1..Len(log) :
            log[k].at = "transcribe_file" =>
               IF log[k].what \in PathErrors
               THEN pc = "raised" => k < Len(log) - 1
               ELSE /\ pc = "raised"
                    /\ exc = log[k].what
                    /\ k = Len(log) - 1
                    /\ log[Len(log)] = Entry("transcribe_audio", log[k].what)
                    /\ "clean_up" \notin ran)
    /\ [](pc \in {"clean_up", "done"} =>
            /\ pending = {}
            /\ \A e \in LogEntries : e.at = "transcribe_file" => e.what \in PathErrors)
    /\ [][pc = "raised" => UNCHANGED vars]_vars

\* C9, its case: a file's transcription raised a PermissionError, and the
\* batch went on to transcribe a file of two chunks and to clean_up
C9_Witness ==
    /\ pc = "done"
    /\ log # <<>>
    /\ log[1] = Entry("transcribe_file", "PermissionError")
    /\ \E t \in DOMAIN output_folder : Len(output_folder[t]) = 4

\* ./input/<source_id> does not exist, is a file, or is an empty directory
InvalidPath ==
    self.source_type = "local" /\ input.kind \in {"missing", "file", "empty"}

\* C10 (Spec): on a local source whose path does not exist, is a regular
\* file or is an empty directory, process_local_files logs an error and
\* returns without raising, extracts nothing and leaves the intermediate
\* folder as it was; process() goes on to transcribe_audio, and to clean_up
\* when transcribe_audio returns.
C10_InvalidPathAbandoned ==
    /\ [][(pc = "process_local_files" /\ InvalidPath) =>
            /\ pc' = "transcribe_audio"
            /\ exc' = "none"
            /\ intermediate_folder' = intermediate_folder
            /\ extracted' = <<>>
            /\ Len(log') = Len(log) + 1
            /\ log'[Len(log')].at = "process_local_files"]_vars
    /\ [](InvalidPath =>
            /\ extracted = <<>>
            /\ pc = "raised" => "transcribe_audio" \in ran
            /\ pc = "done" => {"transcribe_audio", "clean_up"} \subseteq ran
            /\ pc = "clean_up" => "transcribe_audio" \in ran)

\* C10, its case: the path was an empty directory, and process() went on to
\* transcribe the file the intermediate folder held and to clean_up
C10_Witness ==
    /\ InvalidPath
    /\ input.kind = "empty"
    /\ pc = "done"
    /\ DOMAIN output_folder # {}
    /\ "clean_up" \in ran

===========================================================================
